---------------------------- MODULE Spec2Model ----------------------------
(***************************************************************************)
(* Receipt scanner (src/script.js): the text-extraction engine             *)
(* parseReceiptText, the CSV export (downloadCSV, escapeCsv) and the       *)
(* asynchronous handleFile / displayResults layer around them.             *)
(*                                                                         *)
(* A string is a sequence of characters; a character is a one-character    *)
(* TLA+ string.  A regular expression is a syntax tree, written as the     *)
(* source writes the pattern, and is matched as the JavaScript             *)
(* backtracking matcher matches it: for a start position the matcher       *)
(* yields the sequence of positions at which the pattern can end, in its   *)
(* order of preference (greedy quantifiers longest first, alternatives     *)
(* left to right).  The match at a position is the first of these, and     *)
(* the match in a string is the match at the leftmost position that has    *)
(* one.                                                                    *)
(***************************************************************************)
EXTENDS Integers, Sequences, FiniteSets, TLC

VARIABLES
    text,        \* parseReceiptText: the argument
    parsed,      \* parseReceiptText: the returned record, or NotParsed
    dataset,     \* downloadBtn.dataset: date, merchant, total
    display,     \* textContent of date-value, merchant-value, total-value
    disabled,    \* downloadBtn.disabled
    errorText,   \* errorBox.textContent ("" when hidden)
    progress,    \* progress area: hidden flag and status text
    calls,       \* the handleFile invocations so far, in call order
    csv          \* the text of the last Blob built by downloadCSV, or NoCsv

vars == <<text, parsed, dataset, display, disabled, errorText, progress, calls, csv>>

----------------------------------------------------------------------------
(* Characters *)

NL == "\n"
CR == "\r"
TAB == "\t"
SP == " "
BSL == "\\"
DQ == "\""
COMMA == ","
\* the characters U+20AC, U+00A3 and U+2014, written in ASCII
Euro == "<euro>"
Pound == "<pound>"
EmDash == "<em-dash>"
Dollar == "$"

UpperSeq == <<"A","B","C","D","E","F","G","H","I","J","K","L","M",
              "N","O","P","Q","R","S","T","U","V","W","X","Y","Z">>
LowerSeq == <<"a","b","c","d","e","f","g","h","i","j","k","l","m",
              "n","o","p","q","r","s","t","u","v","w","x","y","z">>
DigitSeq == <<"0","1","2","3","4","5","6","7","8","9">>

Range(f) == {f[i] : i \in DOMAIN f}

Uppers == Range(UpperSeq)
Lowers == Range(LowerSeq)
Digits == Range(DigitSeq)

\* [A-Za-z]
IsAlpha(c) == c \in Uppers \cup Lowers
\* [0-9], \d
IsDigit(c) == c \in Digits
\* \s, and the characters String.prototype.trim removes
IsSpace(c) == c \in {SP, TAB, NL, CR}

\* the case mappings of the i flag
LowerOf ==
    ("A" :> "a") @@ ("B" :> "b") @@ ("C" :> "c") @@ ("D" :> "d") @@ ("E" :> "e")
    @@ ("F" :> "f") @@ ("G" :> "g") @@ ("H" :> "h") @@ ("I" :> "i") @@ ("J" :> "j")
    @@ ("K" :> "k") @@ ("L" :> "l") @@ ("M" :> "m") @@ ("N" :> "n") @@ ("O" :> "o")
    @@ ("P" :> "p") @@ ("Q" :> "q") @@ ("R" :> "r") @@ ("S" :> "s") @@ ("T" :> "t")
    @@ ("U" :> "u") @@ ("V" :> "v") @@ ("W" :> "w") @@ ("X" :> "x") @@ ("Y" :> "y")
    @@ ("Z" :> "z")
UpperOf ==
    ("a" :> "A") @@ ("b" :> "B") @@ ("c" :> "C") @@ ("d" :> "D") @@ ("e" :> "E")
    @@ ("f" :> "F") @@ ("g" :> "G") @@ ("h" :> "H") @@ ("i" :> "I") @@ ("j" :> "J")
    @@ ("k" :> "K") @@ ("l" :> "L") @@ ("m" :> "M") @@ ("n" :> "N") @@ ("o" :> "O")
    @@ ("p" :> "P") @@ ("q" :> "Q") @@ ("r" :> "R") @@ ("s" :> "S") @@ ("t" :> "T")
    @@ ("u" :> "U") @@ ("v" :> "V") @@ ("w" :> "W") @@ ("x" :> "X") @@ ("y" :> "Y")
    @@ ("z" :> "Z")
ToLower(c) == IF c \in Uppers THEN LowerOf[c] ELSE c
ToUpper(c) == IF c \in Lowers THEN UpperOf[c] ELSE c

\* the value of a decimal digit
DigitValues ==
    ("0" :> 0) @@ ("1" :> 1) @@ ("2" :> 2) @@ ("3" :> 3) @@ ("4" :> 4)
    @@ ("5" :> 5) @@ ("6" :> 6) @@ ("7" :> 7) @@ ("8" :> 8) @@ ("9" :> 9)
DigitVal(c) == DigitValues[c]

----------------------------------------------------------------------------
(* Strings *)

\* s.slice(a - 1, b - 1): the characters at positions a .. b-1
Slice(s, a, b) == SubSeq(s, a, b - 1)

\* Array.prototype.join
RECURSIVE Join(_, _)
Join(ss, sep) ==
    IF ss = <<>> THEN <<>>
    ELSE IF Len(ss) = 1 THEN ss[1]
    ELSE ss[1] \o sep \o Join(Tail(ss), sep)

\* String.prototype.trim
RECURSIVE TrimLeft(_)
TrimLeft(s) == IF s # <<>> /\ IsSpace(Head(s)) THEN TrimLeft(Tail(s)) ELSE s
RECURSIVE TrimRight(_)
TrimRight(s) ==
    IF s # <<>> /\ IsSpace(s[Len(s)]) THEN TrimRight(SubSeq(s, 1, Len(s) - 1)) ELSE s
Trim(s) == TrimRight(TrimLeft(s))

\* lines.map(l => l.trim())
RECURSIVE TrimAll(_)
TrimAll(ss) == IF ss = <<>> THEN <<>> ELSE <<Trim(Head(ss))>> \o TrimAll(Tail(ss))

----------------------------------------------------------------------------
(* Regular expressions: the syntax *)

\* a character, [set] and [^set]
Chr(c) == [op |-> "set", neg |-> FALSE, set |-> {c}]
In(S) == [op |-> "set", neg |-> FALSE, set |-> S]
NotIn(S) == [op |-> "set", neg |-> TRUE, set |-> S]
\* r1 r2 .. and r1|r2|..
Cat(rs) == [op |-> "cat", subs |-> rs]
Alt(rs) == [op |-> "alt", subs |-> rs]
\* r{lo,hi}, greedy; hi < 0 for no upper limit
Rep(r, lo, hi) == [op |-> "rep", sub |-> r, lo |-> lo, hi |-> hi]
Opt(r) == Rep(r, 0, 1)
Star(r) == Rep(r, 0, -1)
Plus(r) == Rep(r, 1, -1)
\* (?<![set]) and (?![set])
NotBehind(S) == [op |-> "behind", set |-> S]
NotAhead(S) == [op |-> "ahead", set |-> S]
\* ^ (without the m flag)
AtStart == [op |-> "start"]
\* a word, character by character
RECURSIVE Chars(_)
Chars(w) == IF w = <<>> THEN <<>> ELSE <<Chr(Head(w))>> \o Chars(Tail(w))
Word(w) == Cat(Chars(w))
\* word1|word2|..
RECURSIVE Words(_)
Words(ws) == IF ws = <<>> THEN <<>> ELSE <<Word(Head(ws))>> \o Words(Tail(ws))

\* \d, \s, \w, [A-Za-z]
Letters == Uppers \cup Lowers
Spaces == {SP, TAB, NL, CR}
DigitRe == In(Digits)
SpaceRe == In(Spaces)
WordCharRe == In(Letters \cup Digits \cup {"_"})

----------------------------------------------------------------------------
(* Regular expressions: the matcher *)

\* whether character c is in the set; under the i flag a letter is also in
\* the set when its other case is
CharIn(c, S, ci) == c \in S \/ (ci /\ (ToLower(c) \in S \/ ToUpper(c) \in S))

RECURSIVE Ends(_, _, _, _)
RECURSIVE CatEnds(_, _, _, _, _)
RECURSIVE CatRest(_, _, _, _, _)
RECURSIVE AltEnds(_, _, _, _, _)
RECURSIVE RepEnds(_, _, _, _, _, _)
RECURSIVE RepMore(_, _, _, _, _, _)

\* the ends of re from position p of s, in the matcher's order
Ends(re, s, p, ci) ==
    CASE re.op = "set" ->
           IF p <= Len(s) /\ (CharIn(s[p], re.set, ci) # re.neg) THEN <<p + 1>> ELSE <<>>
      [] re.op = "cat" -> CatEnds(re.subs, 1, s, p, ci)
      [] re.op = "alt" -> AltEnds(re.subs, 1, s, p, ci)
      [] re.op = "rep" -> RepEnds(re.sub, re.lo, re.hi, s, p, ci)
      [] re.op = "behind" -> IF p > 1 /\ p - 1 <= Len(s) /\ s[p - 1] \in re.set THEN <<>> ELSE <<p>>
      [] re.op = "ahead" -> IF p <= Len(s) /\ s[p] \in re.set THEN <<>> ELSE <<p>>
      [] re.op = "start" -> IF p = 1 THEN <<p>> ELSE <<>>

\* subs[k] subs[k+1] ..: for every end of subs[k], in order, the ends of the rest
CatEnds(subs, k, s, p, ci) ==
    IF k > Len(subs) THEN <<p>>
    ELSE CatRest(Ends(subs[k], s, p, ci), subs, k + 1, s, ci)
CatRest(ends, subs, k, s, ci) ==
    IF ends = <<>> THEN <<>>
    ELSE CatEnds(subs, k, s, Head(ends), ci) \o CatRest(Tail(ends), subs, k, s, ci)

\* subs[k]|subs[k+1]|..: the ends of the alternatives, left to right
AltEnds(subs, k, s, p, ci) ==
    IF k > Len(subs) THEN <<>>
    ELSE Ends(subs[k], s, p, ci) \o AltEnds(subs, k + 1, s, p, ci)

\* r{lo,hi}, greedy: one more repetition is tried before stopping here
RepEnds(r, lo, hi, s, p, ci) ==
    IF hi = 0 THEN <<p>>
    ELSE RepMore(Ends(r, s, p, ci), r, lo - 1, IF hi < 0 THEN hi ELSE hi - 1, s, ci)
         \o (IF lo <= 0 THEN <<p>> ELSE <<>>)
RepMore(ends, r, lo, hi, s, ci) ==
    IF ends = <<>> THEN <<>>
    ELSE RepEnds(r, lo, hi, s, Head(ends), ci) \o RepMore(Tail(ends), r, lo, hi, s, ci)

\* a regular expression with its flags
Regex(re, ci) == [re |-> re, ci |-> ci]

NoMatch == [start |-> 0, end |-> 0]
MatchAt(p, ends) == [start |-> p, end |-> Head(ends)]

\* the match at or after position p: leftmost start, first end there
RECURSIVE SearchFrom(_, _, _)
SearchStep(rx, s, p, ends) ==
    IF ends # <<>> THEN MatchAt(p, ends) ELSE SearchFrom(rx, s, p + 1)
SearchFrom(rx, s, p) ==
    IF p > Len(s) + 1 THEN NoMatch
    ELSE SearchStep(rx, s, p, Ends(rx.re, s, p, rx.ci))

\* s.match(rx) without the g flag; m[0]
Search(rx, s) == SearchFrom(rx, s, 1)
Matched(s, m) == Slice(s, m.start, m.end)
\* rx.test(s)
Test(rx, s) == Search(rx, s) # NoMatch

\* s.match(rx) with the g flag: the successive matches, each sought from the
\* end of the one before (no pattern here matches the empty string)
RECURSIVE AllFrom(_, _, _)
AllNext(rx, s, m) == IF m = NoMatch THEN <<>> ELSE <<m>> \o AllFrom(rx, s, m.end)
AllFrom(rx, s, p) == AllNext(rx, s, SearchFrom(rx, s, p))
AllMatches(rx, s) == AllFrom(rx, s, 1)

RECURSIVE MatchedAll(_, _)
MatchedAll(s, ms) ==
    IF ms = <<>> THEN <<>> ELSE <<Matched(s, Head(ms))>> \o MatchedAll(s, Tail(ms))

\* s.replace(rx, repl) with the g flag
RECURSIVE ReplaceFrom(_, _, _, _, _)
ReplaceFrom(s, ms, k, p, repl) ==
    IF k > Len(ms) THEN Slice(s, p, Len(s) + 1)
    ELSE Slice(s, p, ms[k].start) \o repl \o ReplaceFrom(s, ms, k + 1, ms[k].end, repl)
ReplaceAll(rx, s, repl) == ReplaceFrom(s, AllMatches(rx, s), 1, 1, repl)

\* s.replace(rx, repl) without the g flag
ReplaceMatch(s, m, repl) ==
    IF m = NoMatch THEN s
    ELSE Slice(s, 1, m.start) \o repl \o Slice(s, m.end, Len(s) + 1)
ReplaceFirst(rx, s, repl) == ReplaceMatch(s, Search(rx, s), repl)

\* s.split(rx): the pieces between the successive matches
RECURSIVE SplitFrom(_, _, _, _)
SplitFrom(s, ms, k, p) ==
    IF k > Len(ms) THEN <<Slice(s, p, Len(s) + 1)>>
    ELSE <<Slice(s, p, ms[k].start)>> \o SplitFrom(s, ms, k + 1, ms[k].end)
Split(rx, s) == SplitFrom(s, AllMatches(rx, s), 1, 1)

----------------------------------------------------------------------------
(* parseReceiptText: the lines and the joined text (script.js 105-110) *)

\* /\r?\n/
LineBreakRx == Regex(Cat(<<Opt(Chr(CR)), Chr(NL)>>), FALSE)

\* text.split(/\r?\n/).map(l => l.trim()).filter(l => l.length > 0)
NonEmpty(l) == Len(l) > 0
LinesOf(t) == SelectSeq(TrimAll(Split(LineBreakRx, t)), NonEmpty)

\* the separator of lines.join(" \\n "): space, backslash, n, space
JoinSep == <<SP, BSL, "n", SP>>
FullText(lines) == Join(lines, JoinSep)

----------------------------------------------------------------------------
(* parseReceiptText: the date (script.js 112-123) *)

\* (20\d{2}|19\d{2})
YearRe ==
    Alt(<<Cat(<<Chr("2"), Chr("0"), Rep(DigitRe, 2, 2)>>),
          Cat(<<Chr("1"), Chr("9"), Rep(DigitRe, 2, 2)>>)>>)
\* [-\/.]
DateSepRe == In({"-", "/", "."})
\* 0?[1-9]
ZeroOptDigitRe == Cat(<<Opt(Chr("0")), In(Digits \ {"0"})>>)
\* (0?[1-9]|1[0-2])
MonthRe == Alt(<<ZeroOptDigitRe, Cat(<<Chr("1"), In({"0", "1", "2"})>>)>>)
\* (0?[1-9]|[12]\d|3[01])
DayRe ==
    Alt(<<ZeroOptDigitRe,
          Cat(<<In({"1", "2"}), DigitRe>>),
          Cat(<<Chr("3"), In({"0", "1"})>>)>>)
\* (Jan|Feb|Mar|Apr|May|Jun|Jul|Aug|Sep|Sept|Oct|Nov|Dec)
MonthNames ==
    <<<<"J","a","n">>,
      <<"F","e","b">>,
      <<"M","a","r">>,
      <<"A","p","r">>,
      <<"M","a","y">>,
      <<"J","u","n">>,
      <<"J","u","l">>,
      <<"A","u","g">>,
      <<"S","e","p">>,
      <<"S","e","p","t">>,
      <<"O","c","t">>,
      <<"N","o","v">>,
      <<"D","e","c">>>>
MonthNameRe == Alt(Words(MonthNames))

\* datePatterns: YYYY-MM-DD, MM-DD-YYYY, DD-MM-YYYY, DD Month YYYY (i flag)
DatePatterns ==
    <<Regex(Cat(<<YearRe, DateSepRe, MonthRe, DateSepRe, DayRe>>), FALSE),
      Regex(Cat(<<MonthRe, DateSepRe, DayRe, DateSepRe, YearRe>>), FALSE),
      Regex(Cat(<<DayRe, DateSepRe, MonthRe, DateSepRe, YearRe>>), FALSE),
      Regex(Cat(<<DayRe, Plus(SpaceRe), MonthNameRe, Star(WordCharRe), Plus(SpaceRe),
                  YearRe>>), TRUE)>>

\* for (const rx of datePatterns) { const m = fullText.match(rx);
\*   if (m) { foundDate = m[0]; break; } }, from pattern k on
RECURSIVE DateLoop(_, _)
\* the loop without its break: the last pattern that matches decides
DateStepNoBreak(s, k, m) ==
    IF DateLoop(s, k + 1) # <<>> THEN DateLoop(s, k + 1)
    ELSE IF m # NoMatch THEN Matched(s, m) ELSE <<>>
DateStep(s, k, m) == IF m # NoMatch THEN Matched(s, m) ELSE DateLoop(s, k + 1)
DateLoop(s, k) ==
    IF k > Len(DatePatterns) THEN <<>>
    ELSE DateStep(s, k, Search(DatePatterns[k], s))
FoundDate(fullText) == DateLoop(fullText, 1)

----------------------------------------------------------------------------
(* parseReceiptText: the total (script.js 125-151) *)

\* the words of the patterns
USD == <<"U","S","D">>
EUR == <<"E","U","R">>
GRAND == <<"g","r","a","n","d">>
TOTAL == <<"t","o","t","a","l">>
AMOUNT == <<"a","m","o","u","n","t">>
DUE == <<"d","u","e">>
BALANCE == <<"b","a","l","a","n","c","e">>

\* ([0-9]{1,3}(?:,[0-9]{3})*(?:\.[0-9]{2})|[0-9]+\.[0-9]{2})
AmountRe ==
    Alt(<<Cat(<<Rep(DigitRe, 1, 3),
                Star(Cat(<<Chr(COMMA), Rep(DigitRe, 3, 3)>>)),
                Cat(<<Chr("."), Rep(DigitRe, 2, 2)>>)>>),
          Cat(<<Plus(DigitRe), Chr("."), Rep(DigitRe, 2, 2)>>)>>)

\* currencyAmount:
\* /(?:\$|USD\s*\$?|EUR\s*<euro>?|<pound>|<euro>)\s*(amount)/
CurrencyAmount ==
    Regex(Cat(<<Alt(<<Chr(Dollar),
                      Cat(<<Word(USD), Star(SpaceRe), Opt(Chr(Dollar))>>),
                      Cat(<<Word(EUR), Star(SpaceRe), Opt(Chr(Euro))>>),
                      Chr(Pound),
                      Chr(Euro)>>),
                Star(SpaceRe),
                AmountRe>>), FALSE)

\* amountOnly: /(?<![A-Za-z])(amount)(?![A-Za-z])/
AmountOnly == Regex(Cat(<<NotBehind(Letters), AmountRe, NotAhead(Letters)>>), FALSE)

\* /(grand\s*total|total\s*amount|amount\s*due|balance\s*due|total)/i
TotalKeywords ==
    Regex(Alt(<<Cat(<<Word(GRAND), Star(SpaceRe), Word(TOTAL)>>),
                Cat(<<Word(TOTAL), Star(SpaceRe), Word(AMOUNT)>>),
                Cat(<<Word(AMOUNT), Star(SpaceRe), Word(DUE)>>),
                Cat(<<Word(BALANCE), Star(SpaceRe), Word(DUE)>>),
                Word(TOTAL)>>), TRUE)
IsTotalLine(line) == Test(TotalKeywords, line)

\* m1[0].replace(/^[^0-9$<euro><pound>]+/, "").trim()
LeadingJunk == Regex(Cat(<<AtStart, Plus(NotIn(Digits \cup {Dollar, Euro, Pound}))>>), FALSE)
StripToAmount(s) == Trim(ReplaceFirst(LeadingJunk, s, <<>>))

\* the body of the Tier-1 loop for an isTotalLine line with matches m1 and
\* m2: whether it breaks out of the loop, and the foundTotal it then leaves
KeywordLineHit(line, m1, m2) ==
    IF m1 # NoMatch THEN [hit |-> TRUE, total |-> StripToAmount(Matched(line, m1))]
    ELSE IF m2 # NoMatch THEN [hit |-> TRUE, total |-> Matched(line, m2)]
    ELSE [hit |-> FALSE, total |-> <<>>]
KeywordLineTotal(line) ==
    IF ~IsTotalLine(line) THEN [hit |-> FALSE, total |-> <<>>]
    ELSE KeywordLineHit(line, Search(CurrencyAmount, line), Search(AmountOnly, line))

\* for (let i = lines.length - 1; i >= 0; i--): foundTotal after the loop
RECURSIVE KeywordTotal(_, _)
\* the loop without its break: the top-most keyword line decides
KeywordStepNoBreak(lines, i, r) ==
    IF KeywordTotal(lines, i - 1) # <<>> THEN KeywordTotal(lines, i - 1)
    ELSE IF r.hit THEN r.total ELSE <<>>
KeywordStep(lines, i, r) == IF r.hit THEN r.total ELSE KeywordTotal(lines, i - 1)
KeywordTotal(lines, i) ==
    IF i < 1 THEN <<>>
    ELSE KeywordStep(lines, i, KeywordLineTotal(lines[i]))

\* line.match(/(amount)/g) for every line, in order: all the strings s of the
\* Tier-2 loops
AmountGlobal == Regex(AmountRe, FALSE)
RECURSIVE AllAmounts(_)
AllAmounts(lines) ==
    IF lines = <<>> THEN <<>>
    ELSE MatchedAll(Head(lines), AllMatches(AmountGlobal, Head(lines)))
         \o AllAmounts(Tail(lines))

\* parseFloat(s.replace(/,/g, "")) of an amount, in hundredths
CommaRx == Regex(Chr(COMMA), FALSE)
DotRx == Regex(Chr("."), FALSE)
RECURSIVE DecimalValue(_)
DecimalValue(ds) ==
    IF ds = <<>> THEN 0
    ELSE 10 * DecimalValue(SubSeq(ds, 1, Len(ds) - 1)) + DigitVal(ds[Len(ds)])
ParseFloat100(s) == DecimalValue(ReplaceAll(DotRx, ReplaceAll(CommaRx, s, <<>>), <<>>))

\* if (!isNaN(v) && v > maxVal) { maxVal = v; maxStr = s; }
\* the comparison v >= maxVal: the last of the largest amounts decides
MaxUpdateLastTie(acc, s, v) == IF v >= acc.maxVal THEN [maxVal |-> v, maxStr |-> s] ELSE acc
MaxUpdate(acc, s, v) == IF v > acc.maxVal THEN [maxVal |-> v, maxStr |-> s] ELSE acc

\* the Tier-2 loops: maxVal and maxStr after the amounts k, k+1, ..
RECURSIVE MaxScan(_, _, _)
MaxScan(amounts, k, acc) ==
    IF k > Len(amounts) THEN acc
    ELSE MaxScan(amounts, k + 1, MaxUpdate(acc, amounts[k], ParseFloat100(amounts[k])))

\* let maxVal = -1; let maxStr = ""; ..; if (maxVal > 0) foundTotal = maxStr
MaxResult(r) == IF r.maxVal > 0 THEN r.maxStr ELSE <<>>
MaxAmountTotal(lines) ==
    MaxResult(MaxScan(AllAmounts(lines), 1, [maxVal |-> -100, maxStr |-> <<>>]))

\* foundTotal: if (!foundTotal) { the Tier-2 loops }
TotalOrFallback(lines, t1) == IF t1 # <<>> THEN t1 ELSE MaxAmountTotal(lines)
FoundTotal(lines) == TotalOrFallback(lines, KeywordTotal(lines, Len(lines)))

----------------------------------------------------------------------------
(* parseReceiptText: the merchant (script.js 153-163) *)

\* skipKeywords, i flag
SkipWords ==
    <<<<"r","e","c","e","i","p","t">>,
      <<"i","n","v","o","i","c","e">>,
      <<"s","t","o","r","e">>,
      <<"m","a","r","k","e","t">>,
      <<"m","a","r","t">>,
      <<"s","u","p","e","r","m","a","r","k","e","t">>,
      <<"s","h","o","p">>,
      <<"c","a","s","h","i","e","r">>,
      <<"t","r","a","n","s","a","c","t","i","o","n">>,
      <<"d","a","t","e">>,
      <<"t","i","m","e">>,
      <<"s","u","b","t","o","t","a","l">>,
      <<"t","a","x">>,
      <<"v","a","t">>,
      <<"t","o","t","a","l">>,
      <<"a","m","o","u","n","t">>,
      <<"p","h","o","n","e">>,
      <<"t","e","l">>,
      <<"a","d","d","r","e","s","s">>,
      <<"p","o","s">>,
      <<"t","e","r","m","i","n","a","l">>,
      <<"c","a","r","d">>,
      <<"c","h","a","n","g","e">>,
      <<"c","a","s","h">>,
      <<"c","r","e","d","i","t">>,
      <<"d","e","b","i","t">>>>
SkipKeywords == Regex(Alt(Words(SkipWords)), TRUE)

\* Math.min(lines.length, 12)
MerchantWindow == 12

\* alphaRatio < 0.3, for alphaRatio = letters / line.length (the IEEE
\* quotient of two small integers against the double 0.3: exact)
NonLetterRx == Regex(NotIn(Letters), FALSE)
AlphaCount(line) == Len(ReplaceAll(NonLetterRx, line, <<>>))
AlphaRatioLow(line) == 10 * AlphaCount(line) < 3 * Len(line)

\* line.replace(/[^A-Za-z0-9 .,&'-]/g, "").replace(/\s{2,}/g, " ").trim()
NonMerchantRx ==
    Regex(NotIn(Letters \cup Digits \cup {SP, ".", COMMA, "&", "'", "-"}), FALSE)
SpaceRunRx == Regex(Rep(SpaceRe, 2, -1), FALSE)
Sanitize(line) == Trim(ReplaceAll(SpaceRunRx, ReplaceAll(NonMerchantRx, line, <<>>), <<SP>>))

\* the merchant loop from line i on
RECURSIVE MerchantLoop(_, _)
MerchantStep(lines, i, m) == IF m # <<>> THEN m ELSE MerchantLoop(lines, i + 1)
\* the loop over all the lines instead of the first twelve
MerchantLoopAllLines(lines, i) ==
    IF i > Len(lines) THEN <<>>
    ELSE IF AlphaRatioLow(lines[i]) THEN MerchantLoop(lines, i + 1)
    ELSE IF Test(SkipKeywords, lines[i]) THEN MerchantLoop(lines, i + 1)
    ELSE IF Len(lines[i]) < 2 THEN MerchantLoop(lines, i + 1)
    ELSE MerchantStep(lines, i, Sanitize(lines[i]))
MerchantLoop(lines, i) ==
    IF i > Len(lines) \/ i > MerchantWindow THEN <<>>
    ELSE IF AlphaRatioLow(lines[i]) THEN MerchantLoop(lines, i + 1)
    ELSE IF Test(SkipKeywords, lines[i]) THEN MerchantLoop(lines, i + 1)
    ELSE IF Len(lines[i]) < 2 THEN MerchantLoop(lines, i + 1)
    ELSE MerchantStep(lines, i, Sanitize(lines[i]))
FoundMerchant(lines) == MerchantLoop(lines, 1)

----------------------------------------------------------------------------
(* parseReceiptText (script.js 104-166) *)

\* raw rebuilt from the cleaned lines instead of the argument
ParseLinesRawRebuilt(t, lines) ==
    [date |-> FoundDate(FullText(lines)),
     merchant |-> FoundMerchant(lines),
     total |-> FoundTotal(lines),
     raw |-> Join(lines, <<NL>>)]
ParseLines(t, lines) ==
    [date |-> FoundDate(FullText(lines)),
     merchant |-> FoundMerchant(lines),
     total |-> FoundTotal(lines),
     raw |-> t]
ParseReceiptText(t) == ParseLines(t, LinesOf(t))

----------------------------------------------------------------------------
(* The CSV export (script.js 178-192) *)

\* /[",\n]/ and /"/g
CsvSpecialRx == Regex(In({DQ, COMMA, NL}), FALSE)
QuoteRx == Regex(Chr(DQ), FALSE)

\* escapeCsv(value), for a string value
EscapeCsv(v) ==
    IF Test(CsvSpecialRx, v) THEN <<DQ>> \o ReplaceAll(QuoteRx, v, <<DQ, DQ>>) \o <<DQ>>
    ELSE v

CsvHeader == <<<<"D","a","t","e">>, <<"M","e","r","c","h","a","n","t">>, <<"T","o","t","a","l">>>>

\* rows.map(r => r.map(escapeCsv).join(",")).join("\n")
CsvRow(r) == Join([i \in 1..Len(r) |-> EscapeCsv(r[i])], <<COMMA>>)
CsvRows(ds) == <<CsvHeader, <<ds.date, ds.merchant, ds.total>>>>
CsvText(ds) == LET rows == CsvRows(ds) IN Join([i \in 1..Len(rows) |-> CsvRow(rows[i])], <<NL>>)

----------------------------------------------------------------------------
(* The page (script.js 25-49, 168-176) *)

Placeholder == <<EmDash>>
OrPlaceholder(v) == IF v = <<>> THEN Placeholder ELSE v

EmptyFields == [date |-> <<>>, merchant |-> <<>>, total |-> <<>>]
FieldsOf(r) == [date |-> r.date, merchant |-> r.merchant, total |-> r.total]

\* resetUI
ProgressReset == [hidden |-> TRUE, status |-> "", value |-> 0]

\* setProgress(message, progress): the bar's value in hundredths, clamped
Clamp(v) == IF v < 0 THEN 0 ELSE IF v > 100 THEN 100 ELSE v
SetProgress(pr, message, value) ==
    [hidden |-> FALSE,
     status |-> IF message # "" THEN message ELSE pr.status,
     value |-> Clamp(value)]

\* displayResults(data)
DisplayOf(data) ==
    [date |-> OrPlaceholder(data.date),
     merchant |-> OrPlaceholder(data.merchant),
     total |-> OrPlaceholder(data.total)]
DisabledOf(data) == data.date = <<>> /\ data.merchant = <<>> /\ data.total = <<>>

NoCsv == [built |-> FALSE, text |-> <<>>]

----------------------------------------------------------------------------
(* handleFile and its continuation after the OCR promise (script.js 51-102) *)

MaxCalls == 3

\* what handleFile tells apart in its argument: no file, a file whose type
\* does not start with "image/", an image
FileKinds == {"none", "other", "image"}

\* the texts Tesseract.recognize resolves with: two receipts, a text without
\* any field, a whitespace-only text, and no text at all
ReceiptA == <<"J","o","e","'","s",NL,"T","o","t","a","l",SP,Dollar,"5",".","0","0">>
ReceiptB == <<"B","o","b",NL,"7",".","5","0">>
NoFieldsText == <<"#", "#">>
BlankText == <<SP, NL, SP>>
OcrTexts == {ReceiptA, ReceiptB, NoFieldsText, BlankText, <<>>}

\* parseReceiptText over the OCR texts, as a table of arguments and results
OcrParsedTable == {[arg |-> t, result |-> ParseReceiptText(t)] : t \in OcrTexts}
OcrParsed(t) == (CHOOSE e \in OcrParsedTable : e.arg = t).result

\* the messages Tesseract hands the logger: m.status and m.progress in hundredths
LoggerMessages ==
    {[status |-> "recognizing text", progress |-> 50],
     [status |-> "loading tesseract core", progress |-> 0],
     [status |-> "initializing tesseract", progress |-> 0],
     [status |-> "loading language traineddata", progress |-> 0],
     [status |-> "initialized api", progress |-> 0]}

NewCall(kind, pc, outcome) ==
    [file |-> kind, pc |-> pc, outcome |-> outcome, fields |-> EmptyFields,
     pending |-> {j \in 1..Len(calls) : calls[j].pc = "ocr"}]

\* handleFile(file) up to its return or its await
HandleFile(kind) ==
    /\ Len(calls) < MaxCalls
    /\ IF kind = "none" THEN
          /\ errorText' = "No file selected."
          /\ progress' = ProgressReset
          /\ calls' = Append(calls, NewCall(kind, "done", "nofile"))
       ELSE IF kind = "other" THEN
          /\ errorText' = "Please select an image file (JPG, PNG, GIF)."
          /\ progress' = ProgressReset
          /\ calls' = Append(calls, NewCall(kind, "done", "notimage"))
       ELSE
          /\ errorText' = ""
          /\ progress' = SetProgress(SetProgress(ProgressReset, "Loading image", 0),
                                     "Running OCR", 5)
          /\ calls' = Append(calls, NewCall(kind, "ocr", ""))
    /\ UNCHANGED <<text, parsed, dataset, display, disabled, csv>>

\* the logger callback of a recognition that is under way
Logger(i, m) ==
    /\ i \in 1..Len(calls)
    /\ calls[i].pc = "ocr"
    /\ progress' =
         CASE m.status = "recognizing text" -> SetProgress(progress, "Recognizing text", m.progress)
           [] m.status = "loading tesseract core" -> SetProgress(progress, "Loading OCR engine", 10)
           [] m.status = "initializing tesseract" -> SetProgress(progress, "Initializing OCR", 15)
           [] m.status = "loading language traineddata" -> SetProgress(progress, "Loading language data", 20)
           [] OTHER -> progress
    /\ UNCHANGED <<text, parsed, dataset, display, disabled, errorText, calls, csv>>

\* the promise of call i resolves with text t: the rest of the try block
OcrResolve(i, t) ==
    /\ i \in 1..Len(calls)
    /\ calls[i].pc = "ocr"
    /\ IF Trim(t) = <<>> THEN
          /\ errorText' = "OCR did not detect any text. Try a clearer photo."
          /\ progress' = ProgressReset
          /\ calls' = [calls EXCEPT ![i].pc = "done", ![i].outcome = "notext"]
          /\ UNCHANGED <<text, parsed, dataset, display, disabled>>
       ELSE
          LET data == OcrParsed(t) IN
          /\ text' = t
          /\ parsed' = <<data>>
          /\ display' = DisplayOf(data)
          /\ disabled' = DisabledOf(data)
          /\ dataset' = FieldsOf(data)
          /\ progress' = ProgressReset
          /\ calls' = [calls EXCEPT ![i].pc = "done", ![i].outcome = "shown",
                                    ![i].fields = FieldsOf(data)]
          /\ UNCHANGED errorText
    /\ UNCHANGED csv

\* the promise of call i rejects: the catch block
OcrReject(i) ==
    /\ i \in 1..Len(calls)
    /\ calls[i].pc = "ocr"
    /\ errorText' = "Something went wrong during OCR. Please try again."
    /\ progress' = ProgressReset
    /\ calls' = [calls EXCEPT ![i].pc = "done", ![i].outcome = "failed"]
    /\ UNCHANGED <<text, parsed, dataset, display, disabled, csv>>

\* a click on the download button: downloadCSV()
DownloadCSV ==
    /\ ~disabled
    /\ csv' = [built |-> TRUE, text |-> CsvText(dataset)]
    /\ UNCHANGED <<text, parsed, dataset, display, disabled, errorText, progress, calls>>

\* the page after bindEvents(): nothing shown, nothing stored on the button
PageInit ==
    /\ dataset = EmptyFields
    /\ display = DisplayOf(EmptyFields)
    /\ disabled = TRUE
    /\ errorText = ""
    /\ progress = ProgressReset
    /\ calls = <<>>
    /\ csv = NoCsv

Init ==
    /\ text = <<>>
    /\ parsed = <<>>
    /\ PageInit

Next ==
    \/ \E kind \in FileKinds : HandleFile(kind)
    \/ \E i \in 1..MaxCalls, m \in LoggerMessages : Logger(i, m)
    \/ \E i \in 1..MaxCalls, t \in OcrTexts : OcrResolve(i, t)
    \/ \E i \in 1..MaxCalls : OcrReject(i)
    \/ DownloadCSV

Spec == Init /\ [][Next]_vars

----------------------------------------------------------------------------
(* parseReceiptText on its own: the texts it is applied to *)

\* all strings of at most n characters of A
RECURSIVE Strings(_, _)
Longer(S, n, A) == S \cup {Append(s, c) : s \in {x \in S : Len(x) = n - 1}, c \in A}
Strings(n, A) == IF n = 0 THEN {<<>>} ELSE Longer(Strings(n - 1, A), n, A)

\* all sequences of at most n members of P, and these joined by sep
Tuples(n, P) == Strings(n, P)
JoinedTuples(n, P, sep) == {Join(ls, sep) : ls \in Tuples(n, P)}

\* raw texts: every string of whitespace, line breaks, a letter, a digit, a dot
MaxTextLen == 4
TextChars == {SP, NL, CR, "a", "1", "."}
RawTexts == Strings(MaxTextLen, TextChars)

\* receipts around the total: up to MaxTotalLines lines of a pool of lines with
\* and without a total keyword, a currency marker, an amount; single lines of
\* keyword, marker, amount and unit; and every string of 1 , . of a line's length
MaxTotalLines == 3
TotalLinePool ==
    {<<"T","o","t","a","l",SP,Dollar,"1","1",".","0","0">>,
     <<"S","u","b","t","o","t","a","l",SP,"4",".","5","0">>,
     <<"T","O","T","A","L",":",SP,"3",SP,"i","t","e","m","s">>,
     <<Dollar,"2","2",".","1","0">>,
     <<"1",".","0","0",SP,"0","1",".","0","0">>,
     <<"x",SP,"0",".","0","0">>,
     <<"A","m","o","u","n","t",SP,SP,"D","u","e",SP,"U","S","D",SP,"1",COMMA,"2","3","4",".","5","6">>}
ExampleFallbackText == <<Dollar,"4",".","5","0",NL,Dollar,"2","2",".","1","0",NL,Dollar,"3",".","0","0">>
ExampleTotalText == <<"S","u","b","t","o","t","a","l",SP,Dollar,"1","0",".","0","0",NL,"T","a","x",SP,Dollar,"1",".","0","0",NL,"T","o","t","a","l",SP,Dollar,"1","1",".","0","0">>
KeywordParts == {<<>>,
                 <<"T","o","t","a","l",SP>>,
                 <<"t","o","t","a","l">>,
                 <<"b","a","l","a","n","c","e",SP,"d","u","e",":",SP>>}
MarkerParts == {<<>>, <<Dollar>>, <<"U","S","D",SP>>, <<"E","U","R",SP,Euro>>, <<Pound,SP>>}
AmountParts == {<<>>,
                <<"7">>,
                <<"0",".","0","0">>,
                <<"9",".","9","9">>,
                <<"1","2","3","4","5",".","6","7">>,
                <<"1",COMMA,"2","3","4",".","5","6">>,
                <<"1",COMMA,"2","3",".","4","5">>}
UnitParts == {<<>>, <<"k", "g">>}
BuiltTotalLines ==
    {k \o m \o a \o u : k \in KeywordParts, m \in MarkerParts, a \in AmountParts, u \in UnitParts}
MaxAmountLen == 7
AmountChars == {"1", ".", COMMA}
TotalTexts ==
    JoinedTuples(MaxTotalLines, TotalLinePool, <<NL>>)
    \cup {ExampleTotalText, ExampleFallbackText}
    \cup BuiltTotalLines
    \cup Strings(MaxAmountLen, AmountChars)

\* receipts around the date: a date of three numeric fields and two separators
\* with a digit or nothing before and after it; a day, a month name and a year;
\* and up to MaxDateItems dates of the four shapes on one line or on two
DateFields == {<<"2","0","2","4">>,
               <<"1","9","9","9">>,
               <<"3">>,
               <<"0","4">>,
               <<"1","2">>,
               <<"1","5">>,
               <<"3","0">>}
DateSepPairs == {<<"-", "-">>, <<"/", "/">>, <<".", "/">>}
NumericDates ==
    {a \o <<ss[1]>> \o b \o <<ss[2]>> \o c :
        a \in DateFields, b \in DateFields, c \in DateFields, ss \in DateSepPairs}
NamedDates ==
    {d \o sp \o m \o <<SP>> \o y :
        d \in {<<"3">>,
 <<"0","4">>,
 <<"1","5">>,
 <<"3","0">>}, sp \in {<<SP>>, <<SP, SP>>},
        m \in {<<"J","a","n">>,
 <<"S","E","P","T">>,
 <<"s","e","p","t","e","m","b","e","r">>,
 <<"F","o","o">>}, y \in {<<"2","0","2","4">>,
 <<"1","9","9","9">>}}
MaxDateItems == 2
DateItemPool == {<<"2","0","2","4","-","0","1","-","1","5">>,
                 <<"0","3","/","0","4","/","2","0","2","4">>,
                 <<"3","0","/","1","2","/","2","0","2","4">>,
                 <<"1","3","/","0","1","/","2","0","2","4">>,
                 <<"1","5",SP,"J","a","n",SP,"2","0","2","4">>,
                 <<"x">>}
\* two texts that are one date and nothing else
IsoExample == <<"2","0","2","4","-","0","1","-","1","5">>
DmyExample == <<"2","5","/","1","2","/","2","0","2","4">>
DateTexts ==
    {pre \o d \o post : pre \in {<<>>, <<"1">>}, d \in NumericDates \cup NamedDates,
                        post \in {<<>>, <<"5">>}}
    \cup JoinedTuples(MaxDateItems, DateItemPool, <<SP>>)
    \cup JoinedTuples(MaxDateItems, DateItemPool, <<NL>>)
    \cup {IsoExample, DmyExample}

\* receipts around the merchant: up to MaxLongLines lines, all noise but at
\* most two names; single lines of up to MaxMerchantTokens tokens; the header
\* of a receipt
MaxLongLines == 13
NoiseLine == <<"1", "2">>
NameA == <<"J","o","e","'","s">>
NameB == <<"B","o","b",SP,"&",SP,"C","o">>
LongLines(n, a, b) ==
    [i \in 1..n |-> IF i = a THEN NameA ELSE IF i = b THEN NameB ELSE NoiseLine]
LongTexts ==
    {Join(LongLines(n, a, b), <<NL>>) : n \in 1..MaxLongLines, a \in 0..MaxLongLines,
                                        b \in 0..MaxLongLines}
MaxMerchantTokens == 3
MerchantTokens == {<<"J","o">>,
                   <<"e">>,
                   <<"#">>,
                   <<"1","2","3","4","5","6","7">>,
                   <<SP>>,
                   <<SP,SP>>,
                   <<"M","a","r","t">>,
                   <<"&",SP>>}
RECURSIVE Flatten(_)
Flatten(ss) == IF ss = <<>> THEN <<>> ELSE Head(ss) \o Flatten(Tail(ss))
TokenLines == {Flatten(ts) : ts \in Tuples(MaxMerchantTokens, MerchantTokens)}
ExampleHeaderText == <<"*","*","*",SP,"R","E","C","E","I","P","T",SP,"*","*","*",NL,"1","2","3","4","5",NL,"F","r","e","s","h",SP,"F","o","o","d","s",SP,"M","a","r","k","e","t",NL,"D","a","t","e",":",SP,"2","0","2","4","-","0","1","-","0","1">>
MerchantTexts ==
    LongTexts \cup TokenLines
    \cup {Join(<<l, NameB>>, <<NL>>) : l \in TokenLines}
    \cup {ExampleHeaderText}

\* parseReceiptText(text)
Parse ==
    /\ parsed = <<>>
    /\ parsed' = <<ParseReceiptText(text)>>
    /\ UNCHANGED <<text, dataset, display, disabled, errorText, progress, calls, csv>>

NextParse == Parse

InitText == text \in RawTexts /\ parsed = <<>> /\ PageInit
InitTotal == text \in TotalTexts /\ parsed = <<>> /\ PageInit
InitDate == text \in DateTexts /\ parsed = <<>> /\ PageInit
InitMerchant == text \in MerchantTexts /\ parsed = <<>> /\ PageInit

SpecText == InitText /\ [][NextParse]_vars
SpecTotal == InitTotal /\ [][NextParse]_vars
SpecDate == InitDate /\ [][NextParse]_vars
SpecMerchant == InitMerchant /\ [][NextParse]_vars

----------------------------------------------------------------------------
(* downloadCSV on its own: the fields it is applied to *)

MaxFieldLen == 2
CsvChars == {"a", COMMA, DQ, NL, CR}
FieldStrings == Strings(MaxFieldLen, CsvChars)
\* a date as pattern 4 returns it from a line whose day, month and year a
\* carriage return separates
ExampleDateField == <<"1","2",CR,"J","a","n",CR,"2","0","2","4">>
ExampleMerchantField == <<"J","o","e","'","s",SP,DQ,"D","i","n","e","r",DQ,COMMA,SP,"I","n","c",".">>

\* the page after displayResults(data) for fields data
InitCsv ==
    /\ text = <<>>
    /\ parsed = <<>>
    /\ \E d \in FieldStrings \cup {ExampleDateField}, m \in FieldStrings \cup {ExampleMerchantField}, tt \in FieldStrings :
         /\ dataset = [date |-> d, merchant |-> m, total |-> tt]
         /\ display = DisplayOf(dataset)
         /\ disabled = DisabledOf(dataset)
    /\ errorText = ""
    /\ progress = ProgressReset
    /\ calls = <<>>
    /\ csv = NoCsv

NextCsv == DownloadCSV

SpecCsv == InitCsv /\ [][NextCsv]_vars

----------------------------------------------------------------------------
(* Properties of parseReceiptText *)

Done == parsed # <<>>
Result == parsed[1]
Lines == LinesOf(text)

SetMin(S) == CHOOSE x \in S : \A y \in S : x <= y
SetMax(S) == CHOOSE x \in S : \A y \in S : y <= x

\* the lines that match the total keywords and hold an amount of either kind
HasAmount(line) == Test(CurrencyAmount, line) \/ Test(AmountOnly, line)
KeywordAmountLines(lines) ==
    {i \in 1..Len(lines) : IsTotalLine(lines[i]) /\ HasAmount(lines[i])}
\* the amount of such a line: its currency-anchored match, stripped, if it
\* has one, otherwise its bare match
LineAmount(line) ==
    IF Test(CurrencyAmount, line)
    THEN StripToAmount(Matched(line, Search(CurrencyAmount, line)))
    ELSE Matched(line, Search(AmountOnly, line))

\* C1: when some line matches the total keywords and holds an amount, the
\* total is the amount of the bottom-most such line (whatever the lines above
\* it and the keyword lines without amount below it hold), and the example
\* Subtotal $10.00 / Tax $1.00 / Total $11.00 gives $11.00.
C1_KeywordTierBottomMost ==
    Done =>
      /\ KeywordAmountLines(Lines) # {} =>
           Result.total = LineAmount(Lines[SetMax(KeywordAmountLines(Lines))])
      /\ text = ExampleTotalText => Result.total = <<Dollar, "1", "1", ".", "0", "0">>

\* two keyword lines with amounts, a keyword line without amount below them,
\* and a total that is not the largest amount of the receipt
C1_Witness ==
    /\ Done
    /\ Cardinality(KeywordAmountLines(Lines)) >= 2
    /\ \E i \in 1..Len(Lines) :
         i > SetMax(KeywordAmountLines(Lines)) /\ IsTotalLine(Lines[i])
    /\ Result.total # <<>>
    /\ Result.total # MaxAmountTotal(Lines)

MaxLineLen(lines) == IF lines = <<>> THEN 0 ELSE SetMax({Len(lines[i]) : i \in 1..Len(lines)})

\* a candidate amount: a line, the positions of a substring of it, its string
\* and its value in hundredths
Candidate(lines, i, p, e) ==
    [line |-> i, start |-> p, str |-> Slice(lines[i], p, e),
     val |-> ParseFloat100(Slice(lines[i], p, e))]
\* every substring of every line that has the shape of an amount
AmountSubstrings(lines) ==
    {Candidate(lines, i, p, e) :
        <<i, p, e>> \in {x \in (1..Len(lines)) \X (1..MaxLineLen(lines)) \X (1..(MaxLineLen(lines) + 1)) :
                          \E k \in DOMAIN Ends(AmountRe, lines[x[1]], x[2], FALSE) :
                              Ends(AmountRe, lines[x[1]], x[2], FALSE)[k] = x[3]}}
\* the amounts a left-to-right scan of each line finds, each sought from the
\* end of the one before
ScannedAmounts(lines) ==
    UNION {{Candidate(lines, i, m.start, m.end) : m \in Range(AllMatches(AmountGlobal, lines[i]))} :
             i \in 1..Len(lines)}
\* the earliest candidate of the largest value
Earlier(c, d) == c.line < d.line \/ (c.line = d.line /\ c.start <= d.start)
Best(C) ==
    CHOOSE c \in C : \A d \in C : d.val < c.val \/ (d.val = c.val /\ Earlier(c, d))
LargestOf(C) == IF C = {} THEN <<>> ELSE IF Best(C).val > 0 THEN Best(C).str ELSE <<>>

\* C2 as stated: when no keyword line yields an amount, the total is the
\* string of the earliest largest amount among all amount-shaped substrings
\* of all lines, and empty when there is none or the largest is not positive.
C2_Original ==
    (Done /\ KeywordAmountLines(Lines) = {}) =>
        Result.total = LargestOf(AmountSubstrings(Lines))

\* C2, amended: when no keyword line yields an amount, the total is the
\* string of the earliest largest amount among the amounts that a
\* left-to-right scan of each line finds, each amount sought from the end of
\* the previous one (a substring that overlaps an earlier amount is no
\* candidate); it is empty when there is none or the largest is not
\* positive.  $4.50 / $22.10 / $3.00 gives 22.10.
C2_FallbackLargestScanned ==
    Done =>
      /\ KeywordAmountLines(Lines) = {} => Result.total = LargestOf(ScannedAmounts(Lines))
      /\ text = ExampleFallbackText => Result.total = <<"2", "2", ".", "1", "0">>

\* the fallback decides between two amounts of the same value written
\* differently, and between amounts on different lines
C2_Witness ==
    /\ Done
    /\ KeywordAmountLines(Lines) = {}
    /\ Result.total # <<>>
    /\ \E c \in ScannedAmounts(Lines), d \in ScannedAmounts(Lines) :
         c.val = d.val /\ c.str # d.str /\ c.val = Best(ScannedAmounts(Lines)).val
    /\ \E c \in ScannedAmounts(Lines) : c.line > 1

\* whether pattern k matches somewhere in s
PatternMatches(k, s) ==
    \E p \in 1..(Len(s) + 1) : Ends(DatePatterns[k].re, s, p, DatePatterns[k].ci) # <<>>
MatchingPatterns(s) == {k \in 1..4 : PatternMatches(k, s)}
Joined == FullText(Lines)
Mdy == <<"0", "3", "/", "0", "4", "/", "2", "0", "2", "4">>

\* C3: the date is the match of the lowest-numbered pattern that matches
\* anywhere in the joined text, wherever later patterns match; it is empty
\* exactly when no pattern matches; 03/04/2024 is decided by pattern 2 and
\* returned whole.
C3_DatePriority ==
    Done =>
      /\ Result.date = <<>> <=> MatchingPatterns(Joined) = {}
      /\ MatchingPatterns(Joined) # {} =>
           Result.date =
             Matched(Joined, Search(DatePatterns[SetMin(MatchingPatterns(Joined))], Joined))
      /\ text = Mdy => SetMin(MatchingPatterns(Joined)) = 2 /\ Result.date = Mdy

\* pattern 1 matches later in the text than pattern 2 and decides
C3_Witness ==
    /\ Done
    /\ {1, 2} \subseteq MatchingPatterns(Joined)
    /\ Search(DatePatterns[2], Joined).start < Search(DatePatterns[1], Joined).start
    /\ Result.date = Matched(Joined, Search(DatePatterns[1], Joined))
    /\ Result.date # Matched(Joined, Search(DatePatterns[2], Joined))

\* the match that decided the date
DecidingMatch == Search(DatePatterns[SetMin(MatchingPatterns(Joined))], Joined)
DigitAt(s, p) == p \in 1..Len(s) /\ s[p] \in Digits

\* C9 as stated: a returned date is a whole token, neither preceded nor
\* followed by a digit in the text: the text 2024-01-15 gives the date
\* 2024-01-15 and the text 25/12/2024 gives the date 25/12/2024.
C9_WholeDateToken ==
    (Done /\ text \in {IsoExample, DmyExample}) =>
        /\ Result.date = text
        /\ ~DigitAt(Joined, DecidingMatch.start - 1)
        /\ ~DigitAt(Joined, DecidingMatch.end)

\* the header of the Merchant filtering example
FreshFoodsMarket == <<"F","r","e","s","h",SP,"F","o","o","d","s",SP,"M","a","r","k","e","t">>

\* C4 as stated: the example header gives the merchant Fresh Foods Market.
C4_FreshFoodsMarket ==
    (Done /\ text = ExampleHeaderText) => Result.merchant = FreshFoodsMarket

\* the deny-list, as a search for the words in the lower-cased line
LowerStr(s) == [k \in 1..Len(s) |-> ToLower(s[k])]
ContainsWord(line, w) ==
    \E p \in 1..(Len(line) - Len(w) + 1) : SubSeq(LowerStr(line), p, p + Len(w) - 1) = w
Denied(line) == \E k \in 1..Len(SkipWords) : ContainsWord(line, SkipWords[k])
LetterCount(line) == Cardinality({k \in 1..Len(line) : line[k] \in Letters})
MerchantChars == Letters \cup Digits \cup {SP, ".", COMMA, "&", "'", "-"}
IsMerchantChar(c) == c \in MerchantChars
IsVisibleMerchantChar(c) == c \in MerchantChars \ {SP}
NotSpace(c) == c # SP
\* m is line without the characters outside the allowed set, without runs of
\* spaces and without spaces at its ends
SanitizedFrom(line, m) ==
    /\ \A k \in 1..Len(m) : m[k] \in MerchantChars
    /\ \A k \in 1..(Len(m) - 1) : ~(m[k] = SP /\ m[k + 1] = SP)
    /\ m # <<>> => m[1] # SP /\ m[Len(m)] # SP
    /\ SelectSeq(m, NotSpace) = SelectSeq(line, IsVisibleMerchantChar)
    /\ Len(m) <= Len(SelectSeq(line, IsMerchantChar))
Qualifies(line) ==
    /\ 10 * LetterCount(line) >= 3 * Len(line)
    /\ ~Denied(line)
    /\ Len(line) >= 2
    /\ SelectSeq(line, IsVisibleMerchantChar) # <<>>
WindowSize == 12
Window(lines) == 1..(IF Len(lines) < WindowSize THEN Len(lines) ELSE WindowSize)
QualifyingLines(lines) == {i \in Window(lines) : Qualifies(lines[i])}

\* C5: the merchant is the sanitized form of the first of the first
\* min(12, number of lines) lines that qualifies (alphaRatio >= 0.3, no
\* deny-list word, length >= 2, sanitized form not empty), and the empty
\* string when none of them qualifies.
C5_FirstQualifyingLine ==
    Done =>
      IF QualifyingLines(Lines) = {} THEN Result.merchant = <<>>
      ELSE /\ Result.merchant # <<>>
           /\ SanitizedFrom(Lines[SetMin(QualifyingLines(Lines))], Result.merchant)

\* a qualifying line at index 13 is not returned
C5_Witness ==
    /\ Done
    /\ Len(Lines) > WindowSize
    /\ Qualifies(Lines[WindowSize + 1])
    /\ Result.merchant = <<>>

IsText(v) == DOMAIN v = 1..Len(v) /\ \A k \in 1..Len(v) : v[k] \in TextChars

\* C6: parseReceiptText returns for every string; the date, merchant and
\* total it returns are strings, raw is the argument unchanged, and for an
\* empty or whitespace-only argument all three are empty.
C6_TotalAndUniform ==
    /\ DOMAIN ParseReceiptText(text) = {"date", "merchant", "total", "raw"}
    /\ Done =>
         /\ parsed = <<ParseReceiptText(text)>>
         /\ IsText(Result.date) /\ IsText(Result.merchant) /\ IsText(Result.total)
         /\ Result.raw = text
         /\ Trim(text) = <<>> =>
              Result.date = <<>> /\ Result.merchant = <<>> /\ Result.total = <<>>

\* a whitespace-only text with line breaks has been parsed
C6_Witness ==
    /\ Done
    /\ Len(text) >= 3
    /\ Trim(text) = <<>>
    /\ \E k \in 1..Len(text) : text[k] = NL
    /\ Result.raw = text

----------------------------------------------------------------------------
(* Properties of the CSV export *)

\* A reader of RFC 4180 text: records end at a line break (CRLF, and as the
\* common readers do a lone LF or CR), fields are separated by commas, a field
\* that starts with a double quote runs to its closing quote with "" read as
\* one quote, and a quote anywhere else is malformed.
Malformed == [ok |-> FALSE, rows |-> <<>>]
AfterBreak(s, p) == p > 1 /\ s[p - 1] \in {NL, CR}
RECURSIVE ReadCsvFrom(_, _, _, _, _, _)
ReadCsvFrom(s, p, mode, field, row, rows) ==
    IF mode = "quoted" THEN
        IF p > Len(s) THEN Malformed
        ELSE IF s[p] # DQ THEN ReadCsvFrom(s, p + 1, "quoted", Append(field, s[p]), row, rows)
        ELSE IF p < Len(s) /\ s[p + 1] = DQ
             THEN ReadCsvFrom(s, p + 2, "quoted", Append(field, DQ), row, rows)
        ELSE ReadCsvFrom(s, p + 1, "closed", field, row, rows)
    ELSE IF p > Len(s) THEN
        IF mode = "start" /\ row = <<>> /\ AfterBreak(s, p) THEN [ok |-> TRUE, rows |-> rows]
        ELSE [ok |-> TRUE, rows |-> Append(rows, Append(row, field))]
    ELSE IF s[p] = COMMA THEN ReadCsvFrom(s, p + 1, "start", <<>>, Append(row, field), rows)
    ELSE IF s[p] = NL THEN
        ReadCsvFrom(s, p + 1, "start", <<>>, <<>>, Append(rows, Append(row, field)))
    ELSE IF s[p] = CR THEN
        ReadCsvFrom(s, IF p < Len(s) /\ s[p + 1] = NL THEN p + 2 ELSE p + 1,
                    "start", <<>>, <<>>, Append(rows, Append(row, field)))
    ELSE IF s[p] = DQ THEN
        IF mode = "start" THEN ReadCsvFrom(s, p + 1, "quoted", field, row, rows)
        ELSE Malformed
    ELSE IF mode = "closed" THEN Malformed
    ELSE ReadCsvFrom(s, p + 1, "plain", Append(field, s[p]), row, rows)
ReadCsv(s) == ReadCsvFrom(s, 1, "start", <<>>, <<>>, <<>>)

\* the field triples parseReceiptText returns for a text
Extracted(ds) ==
    \E t \in {ds.date, ds.merchant, ds.total} : FieldsOf(ParseReceiptText(t)) = ds

\* C7 as stated: the text downloadCSV builds reads back, with an RFC 4180
\* reader, as two rows: the header Date, Merchant, Total and the three fields
\* stored on the button, unchanged.  Stated for the fields that
\* parseReceiptText can store there.
C7_CsvRoundTrip ==
    (csv.built /\ Extracted(dataset)) =>
        ReadCsv(csv.text) =
            [ok |-> TRUE,
             rows |-> <<CsvHeader, <<dataset.date, dataset.merchant, dataset.total>>>>]

----------------------------------------------------------------------------
(* Properties of handleFile *)

Finished(i) == calls[i].pc = "done"
AllFinished == \A i \in 1..Len(calls) : Finished(i)
\* no call started while another was awaiting its recognition
Sequential == \A i \in 1..Len(calls) : calls[i].pending = {}
Latest == calls[Len(calls)]
Shows(fields) == dataset = fields \/ display = DisplayOf(fields)

\* C8 as stated: once the latest handleFile call has finished, with any
\* outcome, the displayed fields and the export data are not the fields
\* extracted from an image processed before it, and after an outcome without
\* extraction the download button is disabled.  Stated for calls that do not
\* overlap.
C8_NothingRetained ==
    (calls # <<>> /\ AllFinished /\ Sequential) =>
        /\ \A j \in 1..(Len(calls) - 1) :
             (/\ calls[j].outcome = "shown"
              /\ calls[j].fields # EmptyFields
              /\ (Latest.outcome = "shown" => Latest.fields # calls[j].fields))
             => ~Shows(calls[j].fields)
        /\ Latest.outcome # "shown" => disabled

\* C10 as stated: handleFile is started for image A and then for image B
\* while A's recognition is under way; after both have finished, in
\* whichever order, the displayed fields and the export data are those
\* extracted from B.
C10_LatestImageWins ==
    (/\ Len(calls) = 2
     /\ AllFinished
     /\ 1 \in calls[2].pending
     /\ calls[2].outcome = "shown")
    => /\ dataset = calls[2].fields
       /\ display = DisplayOf(calls[2].fields)
       /\ disabled = DisabledOf(calls[2].fields)

=============================================================================
